---- MODULE Spec2Model ----
\* A model of the todo service (GET/POST /api/todo, PUT/DELETE /api/todo/[id])
\* and of the client view (app/page.tsx) that calls it.
EXTENDS Integers, Sequences, FiniteSets, TLC

\* ------------------------------------------------------------------ bounds
\* Rows the store ever creates (ids are 1..MaxId, never reused).
MaxId == 2
\* PUT handlers that may be suspended between their duplicate check and
\* their write at the same time.
MaxPending == 1
\* Calls of the client view (fetch, create, update, delete) in flight at once.
MaxCalls == 1
\* Dismiss timers (setTimeout(() => setError(null), 3000)) pending at once.
MaxTimers == 1
\* Change notifications of the store not yet delivered to the view.
MaxNotifs == 1
\* Calls of the view in flight at once where its calls overlap (SpecSync).
MaxSyncCalls == 2

\* ------------------------------------------------------------------ texts
\* A text is a sequence of one-character strings.
Space == " "
Backslash == "\\"

\* String.prototype.toLowerCase / the folding ILIKE and lower() apply, per character.
LowerChar(c) == IF c = "A" THEN "a" ELSE IF c = "B" THEN "b" ELSE c

Lower(s) == [i \in 1..Len(s) |-> LowerChar(s[i])]

RECURSIVE TrimStart(_)
TrimStart(s) ==
  IF s # <<>> /\ Head(s) = Space THEN TrimStart(Tail(s)) ELSE s

RECURSIVE TrimEnd(_)
TrimEnd(s) ==
  IF s # <<>> /\ s[Len(s)] = Space THEN TrimEnd(SubSeq(s, 1, Len(s) - 1)) ELSE s

\* String.prototype.trim
Trim(s) == TrimEnd(TrimStart(s))

\* s ILIKE p as the store evaluates .ilike('todo', p): % matches any run of
\* characters, _ any one character, a backslash makes the next pattern
\* character literal, every other character matches itself ignoring case.
\* (A pattern that ends in a lone backslash is not among the inputs.)
RECURSIVE ILike(_, _)
ILike(s, p) ==
  IF p = <<>> THEN s = <<>>
  ELSE IF Head(p) = "%" THEN
    ILike(s, Tail(p)) \/ (s # <<>> /\ ILike(Tail(s), p))
  ELSE IF Head(p) = "_" THEN
    s # <<>> /\ ILike(Tail(s), Tail(p))
  ELSE IF Head(p) = Backslash THEN
    /\ Len(p) >= 2
    /\ s # <<>>
    /\ LowerChar(Head(s)) = LowerChar(p[2])
    /\ ILike(Tail(s), Tail(Tail(p)))
  ELSE
    /\ s # <<>>
    /\ LowerChar(Head(s)) = LowerChar(Head(p))
    /\ ILike(Tail(s), Tail(p))

\* The strings request bodies carry.
Texts ==
  { <<>>, <<" ">>, <<"a">>, <<" ", "A">>, <<"%">>, <<"_">>, <<Backslash, "a">> }

\* The value of a body's `todo` field: absent, a string, or some other JSON
\* value (null, a number, ...).
TodoFields ==
  {[kind |-> "undefined", val |-> <<>>], [kind |-> "other", val |-> <<>>]}
    \cup {[kind |-> "string", val |-> t] : t \in Texts}

\* The value of a body's `isCompleted` field: absent (<<>>) or a boolean.
CompletedFields == {<<>>, <<TRUE>>, <<FALSE>>}

Bodies == [todo : TodoFields, isCompleted : CompletedFields]

\* The bodies of create requests (an isCompleted of false is the default).
PostBodies == {b \in Bodies : b.isCompleted # <<FALSE>>}

\* The bodies of update requests: at least one of the two fields is present.
PutBodies == {b \in Bodies : b.todo.kind # "undefined" \/ b.isCompleted # <<>>}

Ids == 1..MaxId

\* ------------------------------------------------------------------ state
VARIABLES
  store,     \* the rows of table todos: records [id, todo, is_completed, created_at]
  nextId,    \* the id (and creation time) the store assigns to the next row
  pending,   \* PUT handlers suspended before their write: records [id, body, updates]
  last,      \* the request handled by the latest step and its response
  todos,     \* view: the cached list (useState<Todo[]>)
  inputValue,\* view: the text of the input (the draft text)
  editingId, \* view: the id being edited, 0 for null
  filterText,\* view: the filter of the displayed list
  error,     \* view: the error banner, NoError for null
  loading,   \* view: the loading flag
  calls,     \* view: the async calls in flight, by slot
  timers,    \* view: the dismiss timers pending
  notifs,    \* change notifications not yet delivered to the view
  event      \* the latest step of the view or of a request of the view

serviceVars == <<store, nextId, pending, last>>

viewVars == <<todos, inputValue, editingId, filterText, error, loading, calls,
              timers, notifs, event>>

vars == <<store, nextId, pending, last, todos, inputValue, editingId,
          filterText, error, loading, calls, timers, notifs, event>>

\* ------------------------------------------------------------------ store
RowIds(st) == {r.id : r \in st}

\* SupabaseTodo -> TodoResponse
Transform(r) ==
  [id |-> r.id, todo |-> r.todo, isCompleted |-> r.is_completed,
   createdAt |-> r.created_at]

\* .order('created_at', { ascending: false })
RECURSIVE OrderDesc(_)
OrderDesc(st) ==
  IF st = {} THEN <<>>
  ELSE LET r == CHOOSE x \in st : \A y \in st : y.created_at <= x.created_at
       IN <<r>> \o OrderDesc(st \ {r})

\* The store's uniqueness constraint on insert: unique text, ignoring case.
UniqueViolation(st, text) == \E r \in st : Lower(r.todo) = Lower(text)

\* .insert([{todo, is_completed}]): the store assigns id and created_at.
Insert(st, nid, text, done) ==
  st \cup {[id |-> nid, todo |-> text, is_completed |-> done, created_at |-> nid]}

ApplyUpdatesFull(r, updates) ==
  [r EXCEPT !.todo = IF updates.todo = <<>> THEN <<>> ELSE updates.todo[1],
            !.is_completed =
              IF updates.is_completed = <<>> THEN FALSE ELSE updates.is_completed[1]]

\* .update(updates).eq('id', id): only the fields present in updates change.
ApplyUpdates(r, updates) ==
  [r EXCEPT !.todo = IF updates.todo = <<>> THEN @ ELSE updates.todo[1],
            !.is_completed =
              IF updates.is_completed = <<>> THEN @ ELSE updates.is_completed[1]]

UpdateNoFilter(st, id, updates) ==
  {ApplyUpdates(r, updates) : r \in st}

Update(st, id, updates) ==
  {IF r.id = id THEN ApplyUpdates(r, updates) ELSE r : r \in st}

DeleteNoFilter(st, id) == {}

\* .delete().eq('id', id)
Delete(st, id) == {r \in st : r.id # id}

\* .select('todo').ilike('todo', pattern).neq('id', id)
ExistingTodos(st, id, pattern) ==
  {r \in st : ILike(r.todo, pattern) /\ r.id # id}

\* ------------------------------------------------------------------ handlers
NoBody == [todo |-> [kind |-> "undefined", val |-> <<>>], isCompleted |-> <<>>]

PostInvalidNoTrim(body) ==
  \/ body.todo.kind # "string"
  \/ body.todo.val = <<>>

\* POST: `!todo || typeof todo !== 'string' || todo.trim() === ''`
PostInvalid(body) ==
  \/ body.todo.kind # "string"
  \/ body.todo.val = <<>>
  \/ Trim(body.todo.val) = <<>>

\* `const { todo, isCompleted = false } = body`
PostCompleted(body) ==
  IF body.isCompleted = <<>> THEN FALSE ELSE body.isCompleted[1]

PutInvalidNoTrim(body) ==
  /\ body.todo.kind # "undefined"
  /\ \/ body.todo.kind # "string"
     \/ body.todo.val = <<>>

\* PUT: `typeof todo !== 'string' || todo.trim() === ''`, for a todo that is not undefined
PutInvalid(body) ==
  /\ body.todo.kind # "undefined"
  /\ \/ body.todo.kind # "string"
     \/ Trim(body.todo.val) = <<>>

\* The TodoUpdateData the PUT handler builds.
PutUpdates(body) ==
  [todo |-> IF body.todo.kind = "undefined" THEN <<>> ELSE <<Trim(body.todo.val)>>,
   is_completed |-> body.isCompleted]

\* An HTTP response of the service: status, the `todo` of the body (if
\* any) and the array a list fetch returns.
Reply(status, todo, data) == [status |-> status, todo |-> todo, data |-> data]

\* POST /api/todo on store st, where the next row gets id nid: the response
\* and the store afterwards.
PostHandler(st, nid, body) ==
  IF PostInvalid(body) THEN
    [reply |-> Reply(400, <<>>, <<>>), store |-> st]
  ELSE IF UniqueViolation(st, Trim(body.todo.val)) THEN
    [reply |-> Reply(409, <<>>, <<>>), store |-> st]
  ELSE
    LET after == Insert(st, nid, Trim(body.todo.val), PostCompleted(body))
        newTodo == CHOOSE r \in after : r.id = nid
    IN [reply |-> Reply(201, <<Transform(newTodo)>>, <<>>), store |-> after]

\* PUT /api/todo/[id] up to the duplicate check: status 400 or 409, or 0
\* when the handler goes on to its write.
PutCheckStatus(st, id, body) ==
  IF PutInvalid(body) THEN 400
  ELSE IF /\ body.todo.kind = "string"
          /\ ExistingTodos(st, id, Trim(body.todo.val)) # {} THEN 409
  ELSE 0

\* PUT /api/todo/[id], the write and the response after it.
PutWriteHandler(st, id, updates) ==
  LET after == Update(st, id, updates)
      data == {r \in after : r.id = id}
  IN IF data = {} THEN
       [reply |-> Reply(404, <<>>, <<>>), store |-> after]
     ELSE
       [reply |-> Reply(200, <<Transform(CHOOSE r \in data : TRUE)>>, <<>>),
        store |-> after]

\* DELETE /api/todo/[id]
DeleteHandler(st, id) ==
  [reply |-> Reply(200, <<>>, <<>>), store |-> Delete(st, id)]

\* GET /api/todo
GetHandler(st) ==
  [reply |-> Reply(200, <<>>,
                [i \in 1..Cardinality(st) |-> Transform(OrderDesc(st)[i])]),
   store |-> st]

\* ------------------------------------------------------------------ requests
\* The service alone, called by any number of clients: each step handles a
\* request (a PUT in two steps, around its two store calls) and records it
\* with its response in `last`.
Handled(op, id, body, reply) ==
  [op |-> op, id |-> id, body |-> body, status |-> reply.status,
   todo |-> reply.todo, data |-> reply.data]

POST(body) ==
  \E h \in {PostHandler(store, nextId, body)} :
     /\ h.reply.status = 201 => nextId <= MaxId
     /\ store' = h.store
     /\ nextId' = IF h.reply.status = 201 THEN nextId + 1 ELSE nextId
     /\ last' = Handled("POST", 0, body, h.reply)
     /\ UNCHANGED <<pending, viewVars>>

PUTCheck(id, body) ==
  \E status \in {PutCheckStatus(store, id, body)} :
     /\ status = 0 => Cardinality(pending) < MaxPending
     /\ pending' =
          IF status = 0
            THEN pending \cup {[id |-> id, body |-> body, updates |-> PutUpdates(body)]}
            ELSE pending
     /\ last' = Handled("PUT", id, body, Reply(status, <<>>, <<>>))
     /\ UNCHANGED <<store, nextId, viewVars>>

PUTWrite(p) ==
  \E h \in {PutWriteHandler(store, p.id, p.updates)} :
     /\ p \in pending
     /\ pending' = pending \ {p}
     /\ store' = h.store
     /\ last' = Handled("PUT", p.id, p.body, h.reply)
     /\ UNCHANGED <<nextId, viewVars>>

DELETE(id) ==
  \E h \in {DeleteHandler(store, id)} :
     /\ store' = h.store
     /\ last' = Handled("DELETE", id, NoBody, h.reply)
     /\ UNCHANGED <<nextId, pending, viewVars>>

GET ==
  /\ last' = Handled("GET", 0, NoBody, GetHandler(store).reply)
  /\ UNCHANGED <<store, nextId, pending, viewVars>>

\* ------------------------------------------------------------------ service
Init ==
  /\ store = {}
  /\ nextId = 1
  /\ pending = {}
  /\ last = Handled("none", 0, NoBody, Reply(0, <<>>, <<>>))
  /\ todos = <<>>
  /\ inputValue = <<>>
  /\ editingId = 0
  /\ filterText = <<>>
  /\ error = "null"
  /\ loading = FALSE
  /\ calls = <<>>
  /\ timers = 0
  /\ notifs = 0
  /\ event = <<>>

Next ==
  \/ \E body \in PostBodies : POST(body)
  \/ \E id \in Ids, body \in PutBodies : PUTCheck(id, body)
  \/ \E p \in pending : PUTWrite(p)
  \/ \E id \in Ids : DELETE(id)
  \/ GET

Spec == Init /\ [][Next]_vars

\* ------------------------------------------------------------------ view
\* The client view of app/page.tsx. The hovered id only decides which row
\* shows its Edit and Delete buttons; the actions below stand for the click
\* together with the pointer move before it.
NoError == "null"

\* What the user types into the input.
InputTexts == { <<" ">>, <<" ", "A">>, <<"%">> }

\* An async call of the view, from its fetch() to the handling of the
\* response. stage: "sent" (request on its way or being handled), "checked"
\* (a PUT handler between its duplicate check and its write), "done" (response
\* on its way back), "failed" (fetch() rejected). submit: the call was made
\* by handleSubmit or handleAddTodo, which go on after it.
Call(kind, id, body, submit, stage, reply) ==
  [kind |-> kind, id |-> id, body |-> body, submit |-> submit, stage |-> stage,
   reply |-> reply]

NoReply == Reply(0, <<>>, <<>>)

Idle == Call("idle", 0, NoBody, FALSE, "idle", NoReply)

Slots == DOMAIN calls

HasFreeSlot == \E i \in Slots : calls[i] = Idle

FreeSlot == CHOOSE i \in Slots : calls[i] = Idle /\ \A j \in Slots : calls[j] = Idle => i <= j

Event(name, slot, status, submit) ==
  [name |-> name, slot |-> slot, status |-> status, submit |-> submit]

\* response.ok
Ok(status) == status >= 200 /\ status <= 299

\* JSON.stringify({ todo: todoText })
TextBody(text) == [todo |-> [kind |-> "string", val |-> text], isCompleted |-> <<>>]

\* JSON.stringify({ isCompleted: !isCompleted })
CompletedBody(done) == [todo |-> [kind |-> "undefined", val |-> <<>>], isCompleted |-> <<done>>]

\* String.prototype.includes
Includes(s, sub) ==
  \E k \in 0..(Len(s) - Len(sub)) : SubSeq(s, k + 1, k + Len(sub)) = sub

\* filteredTodos
FilteredTodos ==
  {todos[i] : i \in {j \in 1..Len(todos) : Includes(Lower(todos[j].todo), Lower(filterText))}}

\* prevTodos.map(todo => todo.id === id ? data.todo : todo)
ReplaceTodo(prev, id, todo) ==
  [i \in 1..Len(prev) |-> IF prev[i].id = id THEN todo ELSE prev[i]]

RemoveTodoKeepsIt(prev, id) == SelectSeq(prev, LAMBDA t : t.id = id)

\* prevTodos.filter(todo => todo.id !== id)
RECURSIVE RemoveTodo(_, _)
RemoveTodo(prev, id) ==
  IF prev = <<>> THEN <<>>
  ELSE IF Head(prev).id = id THEN RemoveTodo(Tail(prev), id)
  ELSE <<Head(prev)>> \o RemoveTodo(Tail(prev), id)

\* The `error` field of a 409 body.
ErrorText(status) ==
  IF status = 409 THEN "Duplicate todo item" ELSE "Failed"

\* `Update failed: ${response.status}`
UpdateFailedText(status) ==
  IF status = 400 THEN "Update failed: 400"
  ELSE IF status = 404 THEN "Update failed: 404"
  ELSE "Update failed: 500"

\* fetchTodos up to its fetch(): setLoading(true) and the request.
StartFetch(slot) ==
  /\ loading' = TRUE
  /\ calls' = [calls EXCEPT ![slot] = Call("fetch", 0, NoBody, FALSE, "sent", NoReply)]

HandleInputChangeAlwaysFilters(value) ==
  /\ inputValue' = value
  /\ filterText' = value
  /\ event' = Event("handleInputChange", 0, 0, FALSE)
  /\ UNCHANGED <<serviceVars, todos, editingId, error, loading, calls, timers, notifs>>

\* handleInputChange
HandleInputChange(value) ==
  /\ inputValue' = value
  /\ filterText' = IF editingId = 0 THEN value ELSE filterText
  /\ event' = Event("handleInputChange", 0, 0, FALSE)
  /\ UNCHANGED <<serviceVars, todos, editingId, error, loading, calls, timers, notifs>>

\* setError('Todo cannot be empty') and its timer, in handleSubmit and handleAddTodo.
RejectEmpty(name) ==
  /\ timers < MaxTimers
  /\ error' = "Todo cannot be empty"
  /\ timers' = timers + 1
  /\ event' = Event(name, 0, 0, FALSE)
  /\ UNCHANGED <<serviceVars, todos, inputValue, editingId, filterText, loading, calls, notifs>>

\* createTodo / updateTodo up to their fetch().
SendCall(name, call) ==
  /\ HasFreeSlot
  /\ calls' = [calls EXCEPT ![FreeSlot] = call]
  /\ event' = Event(name, FreeSlot, 0, call.submit)
  /\ UNCHANGED <<serviceVars, todos, inputValue, editingId, filterText, error, loading,
                 timers, notifs>>

\* handleSubmit (Enter in the input, or the Save button), up to its await.
HandleSubmit ==
  IF Trim(inputValue) = <<>> THEN RejectEmpty("handleSubmit")
  ELSE IF editingId # 0 THEN
    SendCall("handleSubmit",
             Call("update", editingId, TextBody(Trim(inputValue)), TRUE, "sent", NoReply))
  ELSE
    SendCall("handleSubmit",
             Call("create", 0, TextBody(Trim(inputValue)), TRUE, "sent", NoReply))

\* handleAddTodo (the Add button, rendered when nothing is edited), up to its await.
HandleAddTodo ==
  /\ editingId = 0
  /\ IF Trim(inputValue) = <<>> THEN RejectEmpty("handleAddTodo")
     ELSE SendCall("handleAddTodo",
                   Call("create", 0, TextBody(Trim(inputValue)), TRUE, "sent", NoReply))

\* startEditing
StartEditing(todo) ==
  /\ todo \in FilteredTodos
  /\ editingId' = todo.id
  /\ inputValue' = todo.todo
  /\ filterText' = <<>>
  /\ event' = Event("startEditing", 0, 0, FALSE)
  /\ UNCHANGED <<serviceVars, todos, error, loading, calls, timers, notifs>>

\* cancelEditing (the Cancel button, rendered while editing)
CancelEditing ==
  /\ editingId # 0
  /\ editingId' = 0
  /\ inputValue' = <<>>
  /\ filterText' = <<>>
  /\ event' = Event("cancelEditing", 0, 0, FALSE)
  /\ UNCHANGED <<serviceVars, todos, error, loading, calls, timers, notifs>>

\* toggleCompletion
ToggleCompletion(todo) ==
  /\ todo \in FilteredTodos
  /\ SendCall("toggleCompletion",
              Call("update", todo.id, CompletedBody(~todo.isCompleted), FALSE, "sent", NoReply))

\* deleteTodo up to its fetch().
DeleteTodo(todo) ==
  /\ todo \in FilteredTodos
  /\ SendCall("deleteTodo", Call("delete", todo.id, NoBody, FALSE, "sent", NoReply))

\* The subscription callback: any change event starts fetchTodos.
Notification ==
  /\ notifs > 0
  /\ HasFreeSlot
  /\ notifs' = notifs - 1
  /\ StartFetch(FreeSlot)
  /\ event' = Event("notification", FreeSlot, 0, FALSE)
  /\ UNCHANGED <<serviceVars, todos, inputValue, editingId, filterText, error, timers>>

\* A dismiss timer fires: setError(null).
TimerFires ==
  /\ timers > 0
  /\ timers' = timers - 1
  /\ error' = NoError
  /\ event' = Event("timer", 0, 0, FALSE)
  /\ UNCHANGED <<serviceVars, todos, inputValue, editingId, filterText, loading, calls, notifs>>

\* The service handles the request of call i: GET, POST, DELETE, or a PUT up
\* to its duplicate check. A change of a row raises a change notification.
Serve(i) ==
  /\ calls[i].stage = "sent"
  /\ \E h \in { IF calls[i].kind = "fetch" THEN GetHandler(store)
               ELSE IF calls[i].kind = "create" THEN PostHandler(store, nextId, calls[i].body)
               ELSE IF calls[i].kind = "delete" THEN DeleteHandler(store, calls[i].id)
               ELSE [reply |-> Reply(PutCheckStatus(store, calls[i].id, calls[i].body), <<>>, <<>>),
                     store |-> store] } :
       /\ h.reply.status = 201 => nextId <= MaxId
       /\ h.store # store => notifs < MaxNotifs
       /\ store' = h.store
       /\ nextId' = IF h.reply.status = 201 THEN nextId + 1 ELSE nextId
       /\ notifs' = IF h.store # store THEN notifs + 1 ELSE notifs
       /\ calls' = [calls EXCEPT ![i].stage = IF h.reply.status = 0 THEN "checked" ELSE "done",
                                 ![i].reply = h.reply]
  /\ event' = Event("serve", i, 0, FALSE)
  /\ UNCHANGED <<pending, last, todos, inputValue, editingId, filterText, error, loading, timers>>

\* The service finishes the PUT of call i: the write and the response.
ServeWrite(i) ==
  /\ calls[i].stage = "checked"
  /\ \E h \in {PutWriteHandler(store, calls[i].id, PutUpdates(calls[i].body))} :
       /\ h.reply.status = 200 => notifs < MaxNotifs
       /\ store' = h.store
       /\ notifs' = IF h.reply.status = 200 THEN notifs + 1 ELSE notifs
       /\ calls' = [calls EXCEPT ![i].stage = "done", ![i].reply = h.reply]
  /\ event' = Event("serveWrite", i, 0, FALSE)
  /\ UNCHANGED <<nextId, pending, last, todos, inputValue, editingId, filterText, error,
                 loading, timers>>

\* A store call of the handler of call i fails: the handler's catch answers 500.
StoreError(i) ==
  /\ calls[i].stage \in {"sent", "checked"}
  /\ calls' = [calls EXCEPT ![i].stage = "done", ![i].reply = Reply(500, <<>>, <<>>)]
  /\ event' = Event("storeError", i, 0, FALSE)
  /\ UNCHANGED <<serviceVars, todos, inputValue, editingId, filterText, error, loading,
                 timers, notifs>>

\* The fetch() of call i rejects (the network fails).
NetworkFailure(i) ==
  /\ calls[i].stage = "sent"
  /\ calls' = [calls EXCEPT ![i].stage = "failed"]
  /\ event' = Event("networkFailure", i, 0, FALSE)
  /\ UNCHANGED <<serviceVars, todos, inputValue, editingId, filterText, error, loading,
                 timers, notifs>>

Finished(i, kind) == calls[i].kind = kind /\ calls[i].stage \in {"done", "failed"}

\* The status the view sees: the response's, or -1 when fetch() rejected.
Seen(i) == IF calls[i].stage = "failed" THEN -1 ELSE calls[i].reply.status

CreateReturnsTrueOnConflict(i) == Ok(Seen(i)) \/ Seen(i) = 409

\* The value createTodo returns: true for an ok response.
CreateReturnsTrue(i) == Ok(Seen(i))

UpdateReturnsTrueOnConflict(i) == Ok(Seen(i)) \/ Seen(i) = 409

\* The value updateTodo returns: true for an ok response.
UpdateReturnsTrue(i) == Ok(Seen(i))

\* fetchTodos from its await on.
FetchDone(i) ==
  /\ Finished(i, "fetch")
  /\ todos' = IF Ok(Seen(i)) THEN calls[i].reply.data ELSE todos
  /\ error' = IF Seen(i) = -1 THEN "Failed to fetch todos" ELSE error
  /\ loading' = FALSE
  /\ calls' = [calls EXCEPT ![i] = Idle]
  /\ event' = Event("fetchTodos", i, Seen(i), FALSE)
  /\ UNCHANGED <<serviceVars, inputValue, editingId, filterText, timers, notifs>>

\* createTodo from its await on, and the rest of handleSubmit / handleAddTodo.
CreateDone(i) ==
  /\ Finished(i, "create")
  /\ Seen(i) = 409 => timers < MaxTimers
  /\ todos' = IF Ok(Seen(i)) /\ calls[i].reply.todo # <<>>
                THEN <<calls[i].reply.todo[1]>> \o todos ELSE todos
  /\ error' = IF Seen(i) = 409 THEN ErrorText(409)
              ELSE IF Seen(i) = -1 THEN "Failed to create todo" ELSE error
  /\ timers' = IF Seen(i) = 409 THEN timers + 1 ELSE timers
  /\ inputValue' = IF CreateReturnsTrue(i) /\ calls[i].submit THEN <<>> ELSE inputValue
  /\ filterText' = IF CreateReturnsTrue(i) /\ calls[i].submit THEN <<>> ELSE filterText
  /\ calls' = [calls EXCEPT ![i] = Idle]
  /\ event' = Event("createTodo", i, Seen(i), calls[i].submit)
  /\ UNCHANGED <<serviceVars, editingId, loading, notifs>>

\* updateTodo from its await on, and the rest of handleSubmit when it made the call.
UpdateDone(i) ==
  /\ Finished(i, "update")
  /\ (Seen(i) # -1 /\ ~Ok(Seen(i))) => timers < MaxTimers
  /\ todos' = IF Ok(Seen(i)) /\ calls[i].reply.todo # <<>>
                THEN ReplaceTodo(todos, calls[i].id, calls[i].reply.todo[1]) ELSE todos
  /\ error' = IF Seen(i) = 409 THEN ErrorText(409)
              ELSE IF Seen(i) = -1 THEN "Failed to update todo"
              ELSE IF ~Ok(Seen(i)) THEN UpdateFailedText(Seen(i))
              ELSE error
  /\ timers' = IF Seen(i) # -1 /\ ~Ok(Seen(i)) THEN timers + 1 ELSE timers
  /\ editingId' = IF UpdateReturnsTrue(i) /\ calls[i].submit THEN 0 ELSE editingId
  /\ inputValue' = IF UpdateReturnsTrue(i) /\ calls[i].submit THEN <<>> ELSE inputValue
  /\ filterText' = IF UpdateReturnsTrue(i) /\ calls[i].submit THEN <<>> ELSE filterText
  /\ calls' = [calls EXCEPT ![i] = Idle]
  /\ event' = Event("updateTodo", i, Seen(i), calls[i].submit)
  /\ UNCHANGED <<serviceVars, loading, notifs>>

\* deleteTodo from its await on; its catch calls fetchTodos.
DeleteDone(i) ==
  /\ Finished(i, "delete")
  /\ IF Ok(Seen(i)) THEN
       /\ todos' = RemoveTodo(todos, calls[i].id)
       /\ calls' = [calls EXCEPT ![i] = Idle]
       /\ UNCHANGED <<error, loading>>
     ELSE
       /\ error' = "Failed to delete todo"
       /\ StartFetch(i)
       /\ UNCHANGED todos
  /\ event' = Event("deleteTodo", i, Seen(i), FALSE)
  /\ UNCHANGED <<serviceVars, inputValue, editingId, filterText, timers, notifs>>

\* The view right after mounting: the effect has called fetchTodos.
ViewInit ==
  /\ store = {}
  /\ nextId = 1
  /\ pending = {}
  /\ last = Handled("none", 0, NoBody, NoReply)
  /\ todos = <<>>
  /\ inputValue = <<>>
  /\ editingId = 0
  /\ filterText = <<>>
  /\ error = NoError
  /\ loading = TRUE
  /\ calls = [i \in 1..MaxCalls |-> IF i = 1 THEN Call("fetch", 0, NoBody, FALSE, "sent", NoReply)
                              ELSE Idle]
  /\ timers = 0
  /\ notifs = 0
  /\ event = Event("mount", 1, 0, FALSE)

ViewNext ==
  \/ \E value \in InputTexts : HandleInputChange(value)
  \/ HandleSubmit
  \/ HandleAddTodo
  \/ \E todo \in FilteredTodos : StartEditing(todo)
  \/ CancelEditing
  \/ \E todo \in FilteredTodos : ToggleCompletion(todo)
  \/ \E todo \in FilteredTodos : DeleteTodo(todo)
  \/ Notification
  \/ TimerFires
  \/ \E i \in Slots : Serve(i)
  \/ \E i \in Slots : ServeWrite(i)
  \/ \E i \in Slots : StoreError(i)
  \/ \E i \in Slots : NetworkFailure(i)
  \/ \E i \in Slots : FetchDone(i)
  \/ \E i \in Slots : CreateDone(i)
  \/ \E i \in Slots : UpdateDone(i)
  \/ \E i \in Slots : DeleteDone(i)

\* One view and the service behind it.
SpecView == ViewInit /\ [][ViewNext]_vars

\* ------------------------------------------------------------------ sync
\* The view with overlapping calls and other clients writing to the store,
\* where no request fails: every fetch() resolves and every store call
\* succeeds. The view creates, toggles and deletes todos; it does not edit.

\* What the user types before adding a todo.
SyncTexts == { <<" ", "A">> }

\* The texts of the rows other clients create.
RemoteTexts == { <<"%">> }

\* Another client's POST /api/todo that creates a row.
RemoteCreate(text) ==
  /\ notifs < MaxNotifs
  /\ nextId <= MaxId
  /\ \E h \in {PostHandler(store, nextId, TextBody(text))} :
       /\ h.reply.status = 201
       /\ store' = h.store
  /\ nextId' = nextId + 1
  /\ notifs' = notifs + 1
  /\ event' = Event("remoteCreate", 0, 201, FALSE)
  /\ UNCHANGED <<pending, last, todos, inputValue, editingId, filterText, error, loading,
                 calls, timers>>

\* Another client's DELETE /api/todo/[id] of a row.
RemoteDelete(id) ==
  /\ notifs < MaxNotifs
  /\ id \in RowIds(store)
  /\ store' = DeleteHandler(store, id).store
  /\ notifs' = notifs + 1
  /\ event' = Event("remoteDelete", 0, 200, FALSE)
  /\ UNCHANGED <<nextId, pending, last, todos, inputValue, editingId, filterText, error,
                 loading, calls, timers>>

SyncInit ==
  /\ store = {}
  /\ nextId = 1
  /\ pending = {}
  /\ last = Handled("none", 0, NoBody, NoReply)
  /\ todos = <<>>
  /\ inputValue = <<>>
  /\ editingId = 0
  /\ filterText = <<>>
  /\ error = NoError
  /\ loading = TRUE
  /\ calls = [i \in 1..MaxSyncCalls |->
                IF i = 1 THEN Call("fetch", 0, NoBody, FALSE, "sent", NoReply) ELSE Idle]
  /\ timers = 0
  /\ notifs = 0
  /\ event = Event("mount", 1, 0, FALSE)

SyncNext ==
  \/ \E value \in SyncTexts : HandleInputChange(value)
  \/ HandleAddTodo
  \/ \E todo \in FilteredTodos : ToggleCompletion(todo)
  \/ \E todo \in FilteredTodos : DeleteTodo(todo)
  \/ Notification
  \/ TimerFires
  \/ \E i \in Slots : Serve(i)
  \/ \E i \in Slots : ServeWrite(i)
  \/ \E i \in Slots : FetchDone(i)
  \/ \E i \in Slots : CreateDone(i)
  \/ \E i \in Slots : UpdateDone(i)
  \/ \E i \in Slots : DeleteDone(i)
  \/ \E text \in RemoteTexts : RemoteCreate(text)
  \/ \E id \in Ids : RemoteDelete(id)

SpecSync == SyncInit /\ [][SyncNext]_vars

\* ------------------------------------------------------------------ steps
\* Every step sets `last` to the request it handled, so last' names the step.
\* A PUT step that has not reached the write leaves the store alone and
\* removes no suspended handler.
IsPutCheckStep == last'.op = "PUT" /\ pending \subseteq pending'

\* A step that sends a PUT response (status 0 marks a handler that goes on).
IsPutResponseStep == last'.op = "PUT" /\ last'.status # 0

\* ------------------------------------------------------------------ C1
\* C1: in every reachable state no two rows have texts that are equal after
\* trimming, ignoring case.
C1_NoDuplicateTexts ==
  \A r1 \in store : \A r2 \in store :
    r1.id # r2.id => Lower(Trim(r1.todo)) # Lower(Trim(r2.todo))

\* ------------------------------------------------------------------ C2
IsWhitespaceOnly(t) == \A i \in 1..Len(t) : t[i] = Space

\* The text of a create request is missing, not a string, empty or whitespace-only.
CreateTextUnusable(body) ==
  \/ body.todo.kind = "undefined"
  \/ body.todo.kind = "other"
  \/ body.todo.kind = "string" /\ IsWhitespaceOnly(body.todo.val)

\* C2: a create request whose text is missing, not a string, empty or
\* whitespace-only is answered 400 and leaves the set of rows as it was.
C2_InvalidCreateRejected ==
  [][(last'.op = "POST" /\ CreateTextUnusable(last'.body))
       => (last'.status = 400 /\ store' = store)]_vars

C2_Witness ==
  /\ last.op = "POST"
  /\ last.body.todo = [kind |-> "string", val |-> <<" ">>]
  /\ last.status = 400
  /\ store # {}

\* ------------------------------------------------------------------ C3
\* C3: in every reachable state every row's text is non-empty and not
\* whitespace-only.
C3_TextNeverBlank ==
  \A r \in store : r.todo # <<>> /\ ~IsWhitespaceOnly(r.todo)

C3_Witness ==
  /\ last.op = "PUT"
  /\ last.status = 200
  /\ last.body.todo = [kind |-> "string", val |-> <<" ", "A">>]
  /\ \E r \in store : r.id = last.id /\ r.todo = <<"A">>

\* ------------------------------------------------------------------ C4
\* C4: a PUT on an existing todo whose new text equals, ignoring case, the
\* text of another existing todo is answered 409 and changes no row.
C4_DuplicateUpdateRejected ==
  [][(/\ IsPutCheckStep
      /\ last'.id \in RowIds(store)
      /\ last'.body.todo.kind = "string"
      /\ \E r \in store :
           r.id # last'.id /\ Lower(r.todo) = Lower(last'.body.todo.val))
       => (last'.status = 409 /\ store' = store)]_vars

\* ------------------------------------------------------------------ C5
\* The body's text is absent, or a string that is not blank.
WellFormedUpdate(body) ==
  \/ body.todo.kind = "undefined"
  \/ body.todo.kind = "string" /\ ~IsWhitespaceOnly(body.todo.val)

C6_DeleteIdempotent ==
  [][(last'.op = "DELETE")
       => /\ last'.status = 200
          /\ last'.id \notin RowIds(store')
          /\ (last'.id \notin RowIds(store) => store' = store)]_vars

\* A DELETE of an id the store never assigned, with rows present.
C6_Witness ==
  /\ last.op = "DELETE"
  /\ last.status = 200
  /\ last.id >= nextId
  /\ store # {}

\* ------------------------------------------------------------------ C7
\* The request toggleCompletion sends: a body with isCompleted alone.
IsToggleBody(body) == body.todo.kind = "undefined" /\ body.isCompleted # <<>>

RowOf(st, id) == CHOOSE r \in st : r.id = id

\* C7: toggleCompletion sends a PUT that carries only the flipped completed
\* value of the cached todo; when that PUT succeeds the row's completed flag
\* is the value sent, its id, text and createdAt and every other row are as
\* before, and the response is the row as stored; a list fetch answers with
\* exactly the stored rows, field by field, newest first, and the view caches
\* that list.
C7_ToggleRoundTrip ==
  [][/\ (event'.name = "toggleCompletion")
          => /\ calls'[event'.slot].kind = "update"
             /\ calls'[event'.slot].body.todo.kind = "undefined"
             /\ \E k \in 1..Len(todos) :
                  /\ todos[k].id = calls'[event'.slot].id
                  /\ calls'[event'.slot].body.isCompleted = <<~todos[k].isCompleted>>
     /\ (/\ event'.name = "serveWrite"
         /\ IsToggleBody(calls[event'.slot].body)
         /\ calls'[event'.slot].reply.status = 200)
          => LET id == calls[event'.slot].id
                 sent == calls[event'.slot].body.isCompleted[1]
             IN /\ id \in RowIds(store)
                /\ RowOf(store', id) = [RowOf(store, id) EXCEPT !.is_completed = sent]
                /\ {r \in store' : r.id # id} = {r \in store : r.id # id}
                /\ calls'[event'.slot].reply.todo =
                     << [id |-> id, todo |-> RowOf(store, id).todo,
                         isCompleted |-> sent,
                         createdAt |-> RowOf(store, id).created_at] >>
     /\ (event'.name = "serve" /\ calls[event'.slot].kind = "fetch")
          => LET data == calls'[event'.slot].reply.data
             IN /\ calls'[event'.slot].reply.status = 200
                /\ store' = store
                /\ Len(data) = Cardinality(store)
                /\ \A r \in store : \E k \in 1..Len(data) :
                     data[k] = [id |-> r.id, todo |-> r.todo,
                                isCompleted |-> r.is_completed,
                                createdAt |-> r.created_at]
                /\ \A k \in 1..Len(data) : \A j \in 1..Len(data) :
                     k < j => data[k].createdAt >= data[j].createdAt
     /\ (event'.name = "fetchTodos" /\ event'.status = 200)
          => todos' = calls[event'.slot].reply.data]_vars

\* A list fetch has shown a todo as completed: the view creates todos
\* uncompleted, so a toggle has succeeded before.
C7_Witness ==
  /\ event.name = "fetchTodos"
  /\ event.status = 200
  /\ \E k \in 1..Len(todos) : todos[k].isCompleted
  /\ \E k \in 1..Len(todos) : ~todos[k].isCompleted

\* ------------------------------------------------------------------ C8
\* C8: a submit of non-blank input while a todo is edited sends an update of
\* that id with the trimmed input; when the update succeeds editingId
\* becomes null and the input and the filter become empty; when the answer
\* is 409 the banner shows the conflict and the handler leaves editingId and
\* the input as they are.
C8_SubmitWhileEditing ==
  [][/\ (event'.name = "handleSubmit" /\ editingId # 0 /\ Trim(inputValue) # <<>>)
          => /\ calls'[event'.slot] =
                  Call("update", editingId, TextBody(Trim(inputValue)), TRUE, "sent", NoReply)
             /\ calls[event'.slot] = Idle
     /\ (event'.name = "updateTodo" /\ event'.submit /\ event'.status = 200)
          => (editingId' = 0 /\ inputValue' = <<>> /\ filterText' = <<>>)
     /\ (event'.name = "updateTodo" /\ event'.submit /\ event'.status = 409)
          => /\ error' = "Duplicate todo item"
             /\ editingId' = editingId
             /\ inputValue' = inputValue]_vars

\* The update sent by a submit was answered 409; the view still edits the todo.
C8_Witness ==
  /\ event.name = "updateTodo"
  /\ event.submit
  /\ event.status = 409
  /\ editingId # 0
  /\ inputValue # <<>>
  /\ error = "Duplicate todo item"

\* ------------------------------------------------------------------ C9
\* C9: a submit of non-blank input while nothing is edited sends a create
\* with the trimmed input; when the create succeeds the input and the filter
\* become empty; when the answer is 409 the banner shows the conflict and the
\* handler leaves the cached list, editingId and the input as they are.
C9_SubmitWhileCreating ==
  [][/\ (/\ event'.name \in {"handleSubmit", "handleAddTodo"}
         /\ editingId = 0
         /\ Trim(inputValue) # <<>>)
          => /\ calls'[event'.slot] =
                  Call("create", 0, TextBody(Trim(inputValue)), TRUE, "sent", NoReply)
             /\ calls[event'.slot] = Idle
     /\ (event'.name = "createTodo" /\ event'.status = 201)
          => (inputValue' = <<>> /\ filterText' = <<>>)
     /\ (event'.name = "createTodo" /\ event'.status = 409)
          => /\ error' = "Duplicate todo item"
             /\ todos' = todos
             /\ editingId' = editingId
             /\ inputValue' = inputValue]_vars

\* A create was answered 409 with nothing edited; the input is kept.
C9_Witness ==
  /\ event.name = "createTodo"
  /\ event.status = 409
  /\ editingId = 0
  /\ inputValue # <<>>
  /\ todos # <<>>
  /\ error = "Duplicate todo item"

\* ------------------------------------------------------------------ C10
\* C10: every error the banner shows is dismissed without a further user
\* action. Only a dismiss timer clears the banner, and only the handling of
\* a create or update response (or a user action) starts one; so whenever
\* the banner is set, a timer is pending or a create or update call is still
\* in flight.
C10_ErrorsAutoDismiss ==
  error # NoError =>
    \/ timers > 0
    \/ \E i \in Slots : calls[i].kind \in {"create", "update"}

\* ------------------------------------------------------------------ C11
\* Nothing is left to happen without a new write or user action: no
\* notification is undelivered and no call of the view is in flight.
Quiescent == notifs = 0 /\ \A i \in Slots : calls[i] = Idle

\* C11: once every notification is delivered and every call has completed,
\* the cached list holds exactly the rows of the store, one entry per row.
C11_CacheMatchesStore ==
  Quiescent =>
    /\ Len(todos) = Cardinality(store)
    /\ \A r \in store : \E k \in 1..Len(todos) :
         todos[k] = [id |-> r.id, todo |-> r.todo, isCompleted |-> r.is_completed,
                     createdAt |-> r.created_at]

\* ------------------------------------------------------------------ C12
\* The step is the view's handling of the outcome of a delete call (the step
\* that sends the call records status 0).
IsDeleteResponseStep == event'.name = "deleteTodo" /\ event'.status # 0

\* C12: when a delete is answered ok the cached list loses the entries with
\* that id and keeps every other entry, in order; when it is answered with
\* another status or fetch() rejects, the cached list is kept, the banner is
\* set and fetchTodos is started.
C12_DeleteUpdatesCache ==
  [][/\ (IsDeleteResponseStep /\ Ok(event'.status))
          => todos' = SelectSeq(todos, LAMBDA t : t.id # calls[event'.slot].id)
     /\ (IsDeleteResponseStep /\ ~Ok(event'.status))
          => /\ todos' = todos
             /\ error' = "Failed to delete todo"
             /\ loading'
             /\ \E i \in Slots :
                  calls'[i] = Call("fetch", 0, NoBody, FALSE, "sent", NoReply)]_vars

\* A delete was answered ok after two todos were created: one entry is left.
C12_Witness ==
  /\ event.name = "deleteTodo"
  /\ event.status = 200
  /\ nextId = 3
  /\ Cardinality(store) = 1
  /\ Len(todos) = 1
  /\ \E r \in store : todos[1].id = r.id

\* ------------------------------------------------------------------ C13
\* C13: with no other handler between its check and its write, a PUT on an
\* existing id whose text is a non-empty string is answered 409 at its
\* duplicate check if and only if a row with another id has the trimmed text,
\* ignoring case.
C13_ConflictIffDuplicate ==
  [][(/\ IsPutCheckStep
      /\ pending = {}
      /\ last'.id \in RowIds(store)
      /\ last'.body.todo.kind = "string"
      /\ last'.body.todo.val # <<>>)
       => (last'.status = 409 <=>
             \E r \in store :
               r.id # last'.id /\ Lower(r.todo) = Lower(Trim(last'.body.todo.val)))]_vars

\* ------------------------------------------------------------------ C14
\* C14: the cached list never holds two entries with the same id.
C14_NoDuplicateIds ==
  \A k \in 1..Len(todos) : \A j \in 1..Len(todos) :
    k # j => todos[k].id # todos[j].id

\* ------------------------------------------------------------------ C15
\* C15: the loading flag is true exactly while a list fetch is in flight.
C15_LoadingIffFetching ==
  loading <=> \E i \in Slots : calls[i].kind = "fetch"

\* ------------------------------------------------------------------ C16
\* C16: the filter is empty while a todo is edited and equals the input
\* while none is.
C16_FilterFollowsInput ==
  /\ editingId # 0 => filterText = <<>>
  /\ editingId = 0 => filterText = inputValue

\* The user has typed into the input while editing a todo.
C16_Witness ==
  /\ event.name = "handleInputChange"
  /\ editingId # 0
  /\ inputValue = <<"%">>
  /\ filterText = <<>>

\* ------------------------------------------------------------------ C17
\* C17: whenever a todo is edited, the cached list has an entry with its id.
C17_EditingIdInCache ==
  editingId # 0 => \E k \in 1..Len(todos) : todos[k].id = editingId

====
